---- MODULE Spec2Model ----
(***************************************************************************)
(* A model of src/src/mapper.rs: the Proguard remapper.                    *)
(*                                                                         *)
(*   ProguardMapper::new      builds the class index from a record stream  *)
(*   remap_class              one lookup in the index                      *)
(*   remap_frame / next       the lazy expansion of one stack frame        *)
(*   remap_stacktrace         the line-by-line rewriter                    *)
(*                                                                         *)
(* Option<T> is modelled as a sequence of length at most one: <<>> is None *)
(* and <<x>> is Some(x).  A HashMap / BTreeMap is a function whose DOMAIN  *)
(* is its key set.  A Vec and a slice iterator are sequences.              *)
(***************************************************************************)
EXTENDS Integers, Sequences, FiniteSets, TLC

VARIABLES
    pc,          \* "new": the constructor's loop runs; "ready": the index is built
    mapping,     \* the entries the record source has delivered, in stream order
    class,       \* new(): the class being accumulated (local `class`)
    classes,     \* ProguardMapper.classes (new(): local `classes`)
    query,       \* the argument of the last remap_class / remap_frame call, as Option
    remapped,    \* the value the last remap_class call returned
    inner,       \* RemappedFrameIter.inner of the iterator of the last remap_frame call
    calls,       \* what each next() call on that iterator returned, in call order
    input,       \* remap_stacktrace: the lines of `input` read so far
    stacktrace,  \* remap_stacktrace: the local String `stacktrace`
    returned     \* remap_stacktrace: the Result it returned, as Option

vars == <<pc, mapping, class, classes, query, remapped, inner, calls, input,
          stacktrace, returned>>

None == <<>>
Some(x) == <<x>>

----------------------------------------------------------------------------
(* Bounds of the model.                                                    *)

MaxRecords == 4       \* Spec: entries of the record stream
MaxLineRecords == 3   \* SpecLines: entries of the record stream
MaxMembers == 2       \* SpecFrame, SpecTrace: Method records after the Class record
MaxLine == 3          \* the largest line number of an input frame
MaxCalls == 2         \* next() calls made after the iterator returned None
MaxTrace == 2         \* lines of a stack trace

----------------------------------------------------------------------------
(* The record source (crate::mapping): what mapping.iter() can deliver.    *)

ClassRecord(original, obfuscated) ==
    [kind |-> "Class", original |-> original, obfuscated |-> obfuscated]

MethodRecord(original, obfuscated, original_class, line_mapping) ==
    [kind |-> "Method", original |-> original, obfuscated |-> obfuscated,
     original_class |-> original_class, line_mapping |-> line_mapping]

LineMapping(startline, endline, original_startline, original_endline) ==
    [startline |-> startline, endline |-> endline,
     original_startline |-> original_startline,
     original_endline |-> original_endline]

\* a record of another kind (a field, a header), and a parse failure
FieldRecord == [kind |-> "Field"]
ErrEntry == [kind |-> "Err"]

----------------------------------------------------------------------------
(* HashMap / BTreeMap helpers.                                             *)

EmptyMap == [k \in {} |-> None]

Insert(map, key, value) ==
    [k \in DOMAIN map \cup {key} |-> IF k = key THEN value ELSE map[k]]

Get(map, key) == IF key \in DOMAIN map THEN Some(map[key]) ELSE None

----------------------------------------------------------------------------
(* ProguardMapper::new                                                     *)

ClassMapping(original, obfuscated) ==
    [original |-> original, obfuscated |-> obfuscated, members |-> EmptyMap]

\* the accumulator before the first record
Sentinel == ClassMapping("", "")

\* as MemberLines, but the identity range is stored end first
MemberLines_Swapped(line_mapping) ==
    IF line_mapping = None
    THEN [startline |-> 0, endline |-> 0,
          original_startline |-> 0, original_endline |-> None]
    ELSE LET lm == line_mapping[1] IN
         IF lm.original_startline # None
         THEN [startline |-> lm.startline, endline |-> lm.endline,
               original_startline |-> lm.original_startline[1],
               original_endline |-> lm.original_endline]
         ELSE [startline |-> lm.startline, endline |-> lm.endline,
               original_startline |-> lm.endline,
               original_endline |-> Some(lm.startline)]

\* lines 136-148: the four line numbers of a member
MemberLines(line_mapping) ==
    IF line_mapping = None
    THEN [startline |-> 0, endline |-> 0,
          original_startline |-> 0, original_endline |-> None]
    ELSE LET lm == line_mapping[1] IN
         IF lm.original_startline # None
         THEN [startline |-> lm.startline, endline |-> lm.endline,
               original_startline |-> lm.original_startline[1],
               original_endline |-> lm.original_endline]
         ELSE [startline |-> lm.startline, endline |-> lm.endline,
               original_startline |-> lm.startline,
               original_endline |-> Some(lm.endline)]

MemberMapping(record) ==
    LET l == MemberLines(record.line_mapping) IN
    [startline |-> l.startline, endline |-> l.endline,
     original_class |-> record.original_class,
     original |-> record.original,
     original_startline |-> l.original_startline,
     original_endline |-> l.original_endline]

\* as InsertClass, but an entry already in the index is kept (entry().or_insert)
InsertClass_KeepFirst(cs, c) ==
    IF c.original # "" /\ c.obfuscated \notin DOMAIN cs
    THEN Insert(cs, c.obfuscated, c) ELSE cs

\* lines 119-121 and 162-164: the accumulated class goes into the index
InsertClass(cs, c) ==
    IF c.original # "" THEN Insert(cs, c.obfuscated, c) ELSE cs

\* lines 149-157: entry(obfuscated).or_insert_with(Vec::new).push(member)
PushMember(c, record) ==
    LET old == IF record.obfuscated \in DOMAIN c.members
               THEN c.members[record.obfuscated] ELSE <<>>
    IN [c EXCEPT !.members =
            Insert(c.members, record.obfuscated, Append(old, MemberMapping(record)))]

\* as OnRecord, but the fresh class starts with the previous class's member table
OnRecord_KeepMembers(st, record) ==
    CASE record.kind = "Class" ->
            [classes |-> InsertClass(st.classes, st.class),
             class |-> [ClassMapping(record.original, record.obfuscated)
                           EXCEPT !.members = st.class.members]]
      [] record.kind = "Method" ->
            [classes |-> st.classes, class |-> PushMember(st.class, record)]
      [] OTHER -> st

\* the body of the loop, on the pair of locals (classes, class)
OnRecord(st, record) ==
    CASE record.kind = "Class" ->
            [classes |-> InsertClass(st.classes, st.class),
             class |-> ClassMapping(record.original, record.obfuscated)]
      [] record.kind = "Method" ->
            [classes |-> st.classes, class |-> PushMember(st.class, record)]
      [] OTHER -> st

\* mapping.iter().filter_map(Result::ok)
FilterOk(entries) == SelectSeq(entries, LAMBDA e : e.kind # "Err")

RECURSIVE Fold(_, _)
Fold(st, records) ==
    IF records = <<>> THEN st ELSE Fold(OnRecord(st, Head(records)), Tail(records))

\* the whole constructor, as a function of the stream
new(entries) ==
    LET st == Fold([classes |-> EmptyMap, class |-> Sentinel], FilterOk(entries))
    IN InsertClass(st.classes, st.class)

----------------------------------------------------------------------------
(* remap_class                                                             *)

remap_class(name) ==
    LET found == Get(classes, name) IN
    IF found = None THEN None ELSE Some(found[1].original)

----------------------------------------------------------------------------
(* RemappedFrameIter                                                       *)

StackFrame(cls, method, file, line) ==
    [class |-> cls, method |-> method, file |-> file, line |-> line]

\* RemappedFrameIter::empty
empty == None

\* RemappedFrameIter::members
members(frame, iter) == Some([frame |-> frame, members |-> iter])

\* as Skipped, without the test for a member that has no line information
Skipped_NoWildcard(member, frame) ==
    frame.line < member.startline \/ frame.line > member.endline

\* as Skipped, without the test against the first line of the range
Skipped_NoLowerBound(member, frame) ==
    member.endline > 0 /\ frame.line > member.endline

\* line 51: the member does not cover the frame's line
Skipped(member, frame) ==
    member.endline > 0
    /\ (frame.line < member.startline \/ frame.line > member.endline)

\* as RemappedLine, without the offset into the range
RemappedLine_NoOffset(member, frame) == member.original_startline

\* lines 57-61
RemappedLine(member, frame) ==
    IF member.original_endline = None
    THEN member.original_startline
    ELSE member.original_startline + frame.line - member.startline

\* as RemappedFile, but no emitted frame carries a file
RemappedFile_Dropped(member, frame) == None

\* lines 64-68
RemappedFile(member, frame) ==
    IF member.original_class # None THEN None ELSE frame.file

\* lines 69-72
RemappedClass(member, frame) ==
    IF member.original_class # None THEN member.original_class[1] ELSE frame.class

\* lines 73-78
Remapped(member, frame) ==
    StackFrame(RemappedClass(member, frame), member.original,
               RemappedFile(member, frame), RemappedLine(member, frame))

\* as Scan, but a member that is skipped ends the loop (break for continue)
Scan_Break(frame, iter) ==
    IF iter = <<>>
    THEN [item |-> None, members |-> iter]
    ELSE IF Skipped(Head(iter), frame)
         THEN [item |-> None, members |-> <<>>]
         ELSE [item |-> Some(Remapped(Head(iter), frame)), members |-> Tail(iter)]

\* lines 49-81: the loop over the rest of the slice iterator
RECURSIVE Scan(_, _)
Scan(frame, iter) ==
    IF iter = <<>>
    THEN [item |-> None, members |-> iter]
    ELSE IF Skipped(Head(iter), frame)
         THEN Scan(frame, Tail(iter))
         ELSE [item |-> Some(Remapped(Head(iter), frame)), members |-> Tail(iter)]

\* RemappedFrameIter::next: the item returned and the iterator afterwards
next(it) ==
    IF it = None
    THEN [item |-> None, inner |-> None]
    ELSE LET r == Scan(it[1].frame, it[1].members) IN
         [item |-> r.item, inner |-> members(it[1].frame, r.members)]

----------------------------------------------------------------------------
(* remap_frame                                                             *)

\* as remap_frame, but the working frame keeps the obfuscated class name
remap_frame_Obfuscated(frame) ==
    LET c == Get(classes, frame.class) IN
    IF c = None THEN empty
    ELSE LET ms == Get(c[1].members, frame.method) IN
         IF ms = None THEN empty
         ELSE members(frame, ms[1])

remap_frame(frame) ==
    LET c == Get(classes, frame.class) IN
    IF c = None THEN empty
    ELSE LET ms == Get(c[1].members, frame.method) IN
         IF ms = None THEN empty
         ELSE members([frame EXCEPT !.class = c[1].original], ms[1])

----------------------------------------------------------------------------
(* remap_stacktrace                                                        *)

\* lines 218-225: the text written for one remapped frame
Format(frame) ==
    "    at " \o frame.class \o "." \o frame.method \o "("
    \o (IF frame.file = None THEN "<unknown>" ELSE frame.file[1])
    \o ":" \o ToString(frame.line) \o ")"

\* writeln! into a String: the text and a line terminator; it cannot fail
Writeln(buffer, text) == buffer \o text \o "\n"

\* lines 217-226: the for loop over what is left of the iterator
RECURSIVE WriteRest(_, _)
WriteRest(buffer, it) ==
    LET r == next(it) IN
    IF r.item = None THEN buffer
    ELSE WriteRest(Writeln(buffer, Format(r.item[1])), r.inner)

\* as WriteFrames, but the frame that peek() took is not written
WriteFrames_DropPeeked(buffer, line, frame) ==
    LET peeked == next(remap_frame(frame)) IN
    IF peeked.item = None
    THEN Writeln(buffer, line)
    ELSE WriteRest(buffer, peeked.inner)

\* lines 212-226: peek, then fall back to the line or write every frame
WriteFrames(buffer, line, frame) ==
    LET peeked == next(remap_frame(frame)) IN
    IF peeked.item = None
    THEN Writeln(buffer, line)
    ELSE WriteRest(Writeln(buffer, Format(peeked.item[1])), peeked.inner)

\* StackFrame::try_parse (crate::stacktrace): a line is a frame when it is the
\* text of one, and then its file is always present
Parsable ==
    {StackFrame(c, m, Some("Foo.java"), l) :
        c \in {"a.b", "x.y"}, m \in {"c"}, l \in 1..MaxLine}

try_parse(line) ==
    IF \E f \in Parsable : Format(f) = line
    THEN Some(CHOOSE f \in Parsable : Format(f) = line)
    ELSE None

\* lines 209-228: the body of the loop over input.lines()
WriteLine(buffer, line) ==
    LET parsed == try_parse(line) IN
    IF parsed = None
    THEN Writeln(buffer, line)
    ELSE WriteFrames(buffer, line, parsed[1])

----------------------------------------------------------------------------
(* The inputs.                                                             *)

\* Spec: Class records (an empty original name included), two Method
\* records, a record of another kind and a parse failure
BuildRecords ==
    {ClassRecord(o, b) : o \in {"", "com.Foo", "com.Bar"}, b \in {"a.b", "a.h"}}
    \cup {MethodRecord("inner", "c", None, None),
          MethodRecord("outer", "d", None, None)}
    \cup {FieldRecord, ErrEntry}

\* the names remap_class is asked for
ClassNames == {"a.b", "a.h", "unknown"}

\* SpecLines: line mappings the record-source contract admits (positive
\* startline and endline, each original line optional), ordered or not
LineMappings ==
    {None} \cup
    {Some(LineMapping(s, e, os, oe)) :
        s \in {1, 2}, e \in {1, 2},
        os \in {None, Some(3)}, oe \in {None, Some(2), Some(4)}}

LineRecords ==
    {ClassRecord("com.Foo", "a.b")}
    \cup {MethodRecord("outer", "c", None, lm) : lm \in LineMappings}

\* SpecFrame: well-formed line mappings (no line information, the identity
\* range, an inlined range, a shifted range)
FrameLineMappings ==
    {None} \cup
    {Some(LineMapping(r[1], r[2], o[1], o[2])) :
        r \in {<<1, 2>>, <<2, 2>>},
        o \in {<<None, None>>, <<Some(7), None>>, <<Some(5), Some(6)>>}}

FrameMethods ==
    {MethodRecord(n[1], "c", n[2], lm) :
        n \in {<<"outer", None>>, <<"inner", None>>, <<"inner", Some("com.Helper")>>},
        lm \in FrameLineMappings}
    \cup {MethodRecord("other", "d", None, None)}

SeqsUpTo(S, n) == UNION {[1..k -> S] : k \in 0..n}

FrameStreams ==
    {<<ClassRecord("com.Foo", "a.b")>> \o ms : ms \in SeqsUpTo(FrameMethods, MaxMembers)}

Frames ==
    {StackFrame(c, m, f, l) :
        c \in {"a.b", "x.y"}, m \in {"c", "d"},
        f \in {None, Some("Foo.java")}, l \in 1..MaxLine}

\* SpecTrace
TraceMethods ==
    {MethodRecord("outer", "c", None, None),
     MethodRecord("outer", "c", None, Some(LineMapping(2, 2, Some(7), None))),
     MethodRecord("outer", "c", None, Some(LineMapping(1, 2, None, None))),
     MethodRecord("inner", "c", Some("com.Helper"),
                  Some(LineMapping(1, 2, Some(5), Some(6)))),
     MethodRecord("other", "d", None, None)}

TraceStreams ==
    {<<ClassRecord("com.Foo", "a.b")>> \o ms : ms \in SeqsUpTo(TraceMethods, MaxMembers)}

TraceLines ==
    {"Caused by: java.lang.NullPointerException", ""}
    \cup {Format(f) : f \in Parsable}

----------------------------------------------------------------------------
(* Construction, one record at a time.                                     *)

Step(record) ==
    LET st == OnRecord([classes |-> classes, class |-> class], record) IN
    /\ pc = "new"
    /\ mapping' = Append(mapping, record)
    /\ classes' = st.classes
    /\ class' = st.class
    /\ UNCHANGED <<pc, query, remapped, inner, calls, input, stacktrace, returned>>

NewClass(record) == record.kind = "Class" /\ Step(record)

NewMethod(record) == record.kind = "Method" /\ Step(record)

NewOther(record) == record.kind = "Field" /\ Step(record)

\* filter_map(Result::ok) drops the entry before the loop body sees it
NewErr(record) ==
    /\ record.kind = "Err"
    /\ pc = "new"
    /\ mapping' = Append(mapping, record)
    /\ UNCHANGED <<pc, class, classes, query, remapped, inner, calls, input,
                   stacktrace, returned>>

\* lines 162-166: the stream has ended
NewEnd ==
    /\ pc = "new"
    /\ classes' = InsertClass(classes, class)
    /\ class' = Sentinel
    /\ pc' = "ready"
    /\ UNCHANGED <<mapping, query, remapped, inner, calls, input, stacktrace, returned>>

----------------------------------------------------------------------------
(* The queries.                                                            *)

RemapClass(name) ==
    /\ pc = "ready"
    /\ query' = Some(name)
    /\ remapped' = remap_class(name)
    /\ UNCHANGED <<pc, mapping, class, classes, inner, calls, input, stacktrace, returned>>

RemapFrame(frame) ==
    /\ pc = "ready"
    /\ query' = Some(frame)
    /\ inner' = remap_frame(frame)
    /\ calls' = <<>>
    /\ pc' = "frame"
    /\ UNCHANGED <<mapping, class, classes, remapped, input, stacktrace, returned>>

Nones(s) == Len(SelectSeq(s, LAMBDA x : x = None))

\* one next() call on the iterator of the last remap_frame call
IterNext ==
    /\ pc = "frame"
    /\ Nones(calls) < MaxCalls
    /\ LET r == next(inner) IN
       /\ inner' = r.inner
       /\ calls' = Append(calls, r.item)
    /\ UNCHANGED <<pc, mapping, class, classes, query, remapped, input, stacktrace, returned>>

\* one iteration of remap_stacktrace's loop over input.lines()
TraceLine(line) ==
    /\ pc \in {"ready", "trace"}
    /\ Len(input) < MaxTrace
    /\ input' = Append(input, line)
    /\ stacktrace' = WriteLine(stacktrace, line)
    /\ pc' = "trace"
    /\ UNCHANGED <<mapping, class, classes, query, remapped, inner, calls, returned>>

\* line 230: Ok(stacktrace)
TraceEnd ==
    /\ pc \in {"ready", "trace"}
    /\ returned' = Some([ok |-> TRUE, value |-> stacktrace])
    /\ pc' = "done"
    /\ UNCHANGED <<mapping, class, classes, query, remapped, inner, calls, input, stacktrace>>

----------------------------------------------------------------------------
(* Specifications.                                                         *)

Idle ==
    /\ query = None /\ remapped = None /\ inner = None /\ calls = <<>>
    /\ input = <<>> /\ stacktrace = "" /\ returned = None

\* the mapper built from the stream `entries`
Built(entries) ==
    /\ pc = "ready"
    /\ mapping = entries
    /\ classes = new(entries)
    /\ class = Sentinel
    /\ Idle

Init ==
    /\ pc = "new"
    /\ mapping = <<>>
    /\ classes = EmptyMap
    /\ class = Sentinel
    /\ Idle

\* what the record source can still deliver to a stream of at most `limit` entries
Delivered(records, limit) == IF Len(mapping) < limit THEN records ELSE {}

Next ==
    \/ \E r \in Delivered(BuildRecords, MaxRecords) : NewClass(r)
    \/ \E r \in Delivered(BuildRecords, MaxRecords) : NewMethod(r)
    \/ \E r \in Delivered(BuildRecords, MaxRecords) : NewOther(r)
    \/ \E r \in Delivered(BuildRecords, MaxRecords) : NewErr(r)
    \/ NewEnd
    \/ \E name \in ClassNames : RemapClass(name)

Spec == Init /\ [][Next]_vars

LinesNext ==
    \/ \E r \in Delivered(LineRecords, MaxLineRecords) : NewClass(r)
    \/ \E r \in Delivered(LineRecords, MaxLineRecords) : NewMethod(r)
    \/ NewEnd

SpecLines == Init /\ [][LinesNext]_vars

FrameInit == \E s \in FrameStreams : Built(s)

FrameNext ==
    \/ \E f \in Frames : RemapFrame(f)
    \/ IterNext

SpecFrame == FrameInit /\ [][FrameNext]_vars

TraceInit == \E s \in TraceStreams : Built(s)

TraceNext ==
    \/ \E l \in TraceLines : TraceLine(l)
    \/ TraceEnd

SpecTrace == TraceInit /\ [][TraceNext]_vars

----------------------------------------------------------------------------
(* The record stream, as the properties speak of it.                       *)

Positions == 1..Len(mapping)

IsClass(i) == mapping[i].kind = "Class"

IsMethod(i) == mapping[i].kind = "Method"

\* the positions of the Class records that carry `name` as obfuscated name
Carrying(name) == {i \in Positions : IsClass(i) /\ mapping[i].obfuscated = name}

\* those of them whose original name is not empty
Named(name) == {i \in Carrying(name) : mapping[i].original # ""}

Last(S) == CHOOSE i \in S : \A j \in S : j <= i

\* the records after Class record i, up to the next Class record
Following(i) ==
    LET later == {j \in Positions : j > i /\ IsClass(j)}
        stop == IF later = {} THEN Len(mapping)
                ELSE (CHOOSE j \in later : \A k \in later : j <= k) - 1
    IN SubSeq(mapping, i + 1, stop)

MethodsUnder(i, method) ==
    SelectSeq(Following(i), LAMBDA r : r.kind = "Method" /\ r.obfuscated = method)

\* the class entry that Class record i and the Method records after it describe
Described(i) ==
    LET methods == {r.obfuscated : r \in {Following(i)[k] : k \in
                        {k \in 1..Len(Following(i)) : Following(i)[k].kind = "Method"}}}
    IN [original |-> mapping[i].original,
        obfuscated |-> mapping[i].obfuscated,
        members |-> [m \in methods |->
                        [k \in 1..Len(MethodsUnder(i, m)) |->
                            MemberMapping(MethodsUnder(i, m)[k])]]]

----------------------------------------------------------------------------
(* C1: after construction, remap_class of the obfuscated name of a Class   *)
(* record with a non-empty original name, not carried by a later Class     *)
(* record, returns that record's original name; remap_class of a name no   *)
(* Class record carries returns None.                                      *)
C1_RemapClass ==
    (pc = "ready" /\ query # None) =>
        /\ \A i \in Carrying(query[1]) :
              (mapping[i].original # "" /\ i = Last(Carrying(query[1])))
                  => remapped = Some(mapping[i].original)
        /\ Carrying(query[1]) = {} => remapped = None

\* the name is carried twice, the original names differ, the last one is returned
C1_Witness ==
    /\ pc = "ready"
    /\ query = Some("a.b")
    /\ Cardinality(Carrying("a.b")) = 2
    /\ \E i \in Carrying("a.b") : mapping[i].original = "com.Foo" /\ i # Last(Carrying("a.b"))
    /\ mapping[Last(Carrying("a.b"))].original = "com.Bar"
    /\ remapped = Some("com.Bar")

(* C2, as claimed: when two or more Class records share an obfuscated      *)
(* name, the index entry under it is the one the last of them and the      *)
(* Method records after it describe.                                       *)
C2_LastClassWins ==
    pc = "ready" =>
        \A name \in {"a.b", "a.h"} :
            Cardinality(Carrying(name)) >= 2 =>
                /\ name \in DOMAIN classes
                /\ classes[name] = Described(Last(Carrying(name)))

(* C2, amended: when two or more Class records share an obfuscated name,   *)
(* the index entry under it is the one described by the last of them that  *)
(* has a non-empty original name and the Method records after it, and      *)
(* there is no entry when none of them has a non-empty original name.      *)
C2_LastNamedClassWins ==
    pc = "ready" =>
        \A name \in {"a.b", "a.h"} :
            Cardinality(Carrying(name)) >= 2 =>
                IF Named(name) = {}
                THEN name \notin DOMAIN classes
                ELSE /\ name \in DOMAIN classes
                     /\ classes[name] = Described(Last(Named(name)))

\* Class, Method, Class of the same obfuscated name, Method: only the second pair is kept
C2_Witness ==
    /\ pc = "ready"
    /\ Len(mapping) = 4
    /\ Carrying("a.b") = {1, 3}
    /\ Named("a.b") = {1, 3}
    /\ mapping[1].original # mapping[3].original
    /\ IsMethod(2) /\ IsMethod(4)
    /\ mapping[2].obfuscated = "c" /\ mapping[4].obfuscated = "d"
    /\ DOMAIN classes["a.b"].members = {"d"}

----------------------------------------------------------------------------
\* every member mapping the index holds
Stored ==
    UNION {UNION {{classes[c].members[m][k] : k \in 1..Len(classes[c].members[m])} :
                     m \in DOMAIN classes[c].members} :
              c \in DOMAIN classes}

InOrder(member) ==
    member.original_endline # None =>
        /\ member.original_endline[1] >= member.original_startline
        /\ member.endline >= member.startline

\* the line_mapping of a Method record is ordered
Ordered(line_mapping) ==
    line_mapping # None =>
        LET lm == line_mapping[1] IN
        /\ lm.endline >= lm.startline
        /\ (lm.original_startline # None /\ lm.original_endline # None)
              => lm.original_endline[1] >= lm.original_startline[1]

(* C9, as claimed: every stored member mapping with an original_endline    *)
(* has original_endline >= original_startline and obf_endline >=           *)
(* obf_startline.                                                          *)
C9_MembersInOrder ==
    pc = "ready" => \A member \in Stored : InOrder(member)

(* C9, amended: the same, for a stream in which every line_mapping has     *)
(* endline >= startline and, when it carries both original lines,          *)
(* original_endline >= original_startline.                                 *)
C9_OrderedRecordsInOrder ==
    (pc = "ready" /\ \A i \in Positions : IsMethod(i) => Ordered(mapping[i].line_mapping))
        => \A member \in Stored : InOrder(member)

\* an identity range and a shifted range of two lines each are stored
C9_Witness ==
    /\ pc = "ready"
    /\ \A i \in Positions : IsMethod(i) => Ordered(mapping[i].line_mapping)
    /\ \E member \in Stored :
          /\ member.startline = 1 /\ member.endline = 2
          /\ member.original_startline = 1 /\ member.original_endline = Some(2)
    /\ \E member \in Stored :
          /\ member.startline = 1 /\ member.endline = 2
          /\ member.original_startline = 3 /\ member.original_endline = Some(4)

----------------------------------------------------------------------------
(* The frame asked for, and the members it is resolved against.            *)

Asked == query[1]

ClassHeld == Asked.class \in DOMAIN classes

MethodHeld == ClassHeld /\ Asked.method \in DOMAIN classes[Asked.class].members

\* the member vector under (class, method), empty when there is none
Vector == IF MethodHeld THEN classes[Asked.class].members[Asked.method] ELSE <<>>

Matches(member, line) ==
    member.endline = 0 \/ (member.startline <= line /\ line <= member.endline)

\* the matching members, in vector order
Matching == SelectSeq(Vector, LAMBDA m : Matches(m, Asked.line))

\* the Method records of the stream the matching members come from, in stream order
MatchingRecords ==
    IF Named(Asked.class) = {} THEN <<>>
    ELSE SelectSeq(MethodsUnder(Last(Named(Asked.class)), Asked.method),
                   LAMBDA r : Matches(MemberMapping(r), Asked.line))

\* the positions of the next() calls that returned a frame
Emitted == {i \in 1..Len(calls) : calls[i] # None}

(* C3: remap_frame yields at least one frame exactly when the index holds  *)
(* the frame's class, that class holds the frame's method, and some member *)
(* under them has obf_endline = 0 or covers the frame's line.              *)
C3_YieldsIffMatch ==
    (pc = "frame" /\ calls # <<>>) =>
        (calls[1] # None <=>
            /\ ClassHeld
            /\ MethodHeld
            /\ \E k \in 1..Len(Vector) : Matches(Vector[k], Asked.line))

\* the first member does not cover the line, the second does, and a frame is yielded
C3_Witness ==
    /\ pc = "frame"
    /\ calls # <<>>
    /\ calls[1] # None
    /\ Len(Vector) = 2
    /\ ~Matches(Vector[1], Asked.line)
    /\ Matches(Vector[2], Asked.line)

(* C4: the next() calls return one frame per matching member, in the order *)
(* of the Method records in the stream, and None from then on.             *)
C4_StreamOrderThenNone ==
    pc = "frame" =>
        \A i \in 1..Len(calls) :
            calls[i] =
                IF i <= Len(MatchingRecords)
                THEN Some(Remapped(MemberMapping(MatchingRecords[i]),
                                   [Asked EXCEPT !.class =
                                        mapping[Last(Named(Asked.class))].original]))
                ELSE None

\* two different frames, then None twice
C4_Witness ==
    /\ pc = "frame"
    /\ Len(calls) = 4
    /\ calls[1] # None /\ calls[2] # None
    /\ calls[1] # calls[2]
    /\ calls[3] = None /\ calls[4] = None

(* C5: the line of an emitted frame is the member's original_startline     *)
(* when original_endline is absent (0 for a record without line_mapping),  *)
(* and original_startline + L - obf_startline when it is present.          *)
C5_EmittedLine ==
    pc = "frame" =>
        \A i \in Emitted :
            /\ i <= Len(Matching)
            /\ calls[i][1].line =
                  IF Matching[i].original_endline = None
                  THEN Matching[i].original_startline
                  ELSE Matching[i].original_startline + Asked.line - Matching[i].startline
            /\ MatchingRecords[i].line_mapping = None => calls[i][1].line = 0

\* the second line of a shifted range, and a record without line_mapping
C5_Witness ==
    /\ pc = "frame"
    /\ Emitted = {1, 2}
    /\ Matching[1].original_endline # None
    /\ Matching[1].original_startline # Matching[1].startline
    /\ Asked.line > Matching[1].startline
    /\ calls[1][1].line = Matching[1].original_startline + 1
    /\ MatchingRecords[2].line_mapping = None
    /\ calls[2][1].line = 0

(* C6, as claimed: the file of a frame emitted for a member with an        *)
(* original_endline is the file of the input frame.                        *)
C6_NonInlinedKeepsFile ==
    pc = "frame" =>
        \A i \in Emitted :
            (i <= Len(Matching) /\ Matching[i].original_endline # None)
                => calls[i][1].file = Asked.file

(* C6, amended: the file of a frame emitted for a member with an           *)
(* original_endline and without an original_class is the file of the input *)
(* frame.                                                                  *)
C6_OwnNonInlinedKeepsFile ==
    pc = "frame" =>
        \A i \in Emitted :
            /\ i <= Len(Matching)
            /\ (Matching[i].original_endline # None /\ Matching[i].original_class = None)
                  => calls[i][1].file = Asked.file

\* a frame with a file, emitted for a range of the enclosing class
C6_Witness ==
    /\ pc = "frame"
    /\ Asked.file = Some("Foo.java")
    /\ \E i \in Emitted :
          /\ Matching[i].original_endline # None
          /\ Matching[i].original_class = None
          /\ calls[i][1].file = Some("Foo.java")

(* C7: the class of an emitted frame is the member's original_class, with  *)
(* no file, when the member has one, and the original name of the class    *)
(* entry otherwise; its method is the member's original method.            *)
C7_EmittedClassAndMethod ==
    pc = "frame" =>
        \A i \in Emitted :
            /\ i <= Len(Matching)
            /\ IF Matching[i].original_class # None
               THEN /\ calls[i][1].class = Matching[i].original_class[1]
                    /\ calls[i][1].file = None
               ELSE calls[i][1].class = classes[Asked.class].original
            /\ calls[i][1].method = Matching[i].original

\* a frame of a foreign class, then a frame of the enclosing class
C7_Witness ==
    /\ pc = "frame"
    /\ Emitted = {1, 2}
    /\ Asked.file # None
    /\ Matching[1].original_class = Some("com.Helper")
    /\ calls[1][1].class = "com.Helper" /\ calls[1][1].file = None
    /\ Matching[2].original_class = None
    /\ calls[2][1].class = "com.Foo" /\ calls[2][1].class # Asked.class
    /\ calls[2][1].method = "outer"

\* the member the last next() call stopped at: the one before the rest of the iterator
Stopped == Vector[Len(Vector) - Len(inner[1].members)]

\* every line_mapping of the stream has startline >= 1 and endline >= 1
Positive ==
    \A i \in Positions :
        (IsMethod(i) /\ mapping[i].line_mapping # None)
            => /\ mapping[i].line_mapping[1].startline >= 1
               /\ mapping[i].line_mapping[1].endline >= 1

(* C10: when every line_mapping has startline >= 1 and endline >= 1, a     *)
(* member for which next() computes original_startline + L - obf_startline *)
(* has obf_endline > 0 and obf_startline <= L, so the subtraction does not *)
(* go below zero.                                                          *)
C10_NoUnderflow ==
    (pc = "frame" /\ Positive /\ calls # <<>> /\ calls[Len(calls)] # None) =>
        (Stopped.original_endline # None =>
            /\ Stopped.endline > 0
            /\ Asked.line >= Stopped.startline
            /\ Stopped.original_startline + Asked.line - Stopped.startline >= 0)

\* next() has just computed the line of the last line of a range
C10_Witness ==
    /\ pc = "frame"
    /\ calls # <<>>
    /\ calls[Len(calls)] # None
    /\ Stopped.original_endline # None
    /\ Stopped.startline < Stopped.endline
    /\ Asked.line = Stopped.endline

----------------------------------------------------------------------------
(* The trace, as the property speaks of it.                                *)

\* every frame the iterator yields, in yield order
RECURSIVE Yielded(_)
Yielded(it) ==
    LET r == next(it) IN
    IF r.item = None THEN <<>> ELSE <<r.item[1]>> \o Yielded(r.inner)

\* "    at {class}.{method}({file}:{line})" and a line terminator
FrameLine(frame) ==
    LET file == CASE frame.file = None -> "<unknown>"
                  [] OTHER -> frame.file[1]
    IN "    at " \o frame.class \o "." \o frame.method
       \o "(" \o file \o ":" \o ToString(frame.line) \o ")" \o "\n"

RECURSIVE FrameLines(_)
FrameLines(frames) ==
    IF frames = <<>> THEN "" ELSE FrameLine(Head(frames)) \o FrameLines(Tail(frames))

\* the output for one input line
Block(line) ==
    LET parsed == try_parse(line)
        frames == IF parsed = None THEN <<>> ELSE Yielded(remap_frame(parsed[1]))
    IN IF frames = <<>> THEN line \o "\n" ELSE FrameLines(frames)

RECURSIVE Blocks(_)
Blocks(lines) ==
    IF lines = <<>> THEN "" ELSE Block(Head(lines)) \o Blocks(Tail(lines))

(* C8: the output of remap_stacktrace is the concatenation, in input       *)
(* order, of one block per line: the line itself when the parser rejects   *)
(* it or remap_frame yields nothing for it, else one formatted line per    *)
(* yielded frame, with <unknown> for an absent file; the call returns Ok.  *)
C8_LinePreserving ==
    /\ pc \in {"ready", "trace", "done"} => stacktrace = Blocks(input)
    /\ pc = "done" => returned = Some([ok |-> TRUE, value |-> Blocks(input)])

\* a line that is no frame, then a frame that expands to a foreign and an own frame
C8_Witness ==
    /\ pc = "done"
    /\ input = <<"Caused by: java.lang.NullPointerException",
                 "    at a.b.c(Foo.java:2)">>
    /\ returned # None
    /\ returned[1].value =
          "Caused by: java.lang.NullPointerException\n"
          \o "    at com.Helper.inner(<unknown>:6)\n"
          \o "    at com.Foo.outer(Foo.java:0)\n"

====
